---- MODULE Spec2Model ----
(***************************************************************************)
(* The Learner process of nsm/learner.py: the training loop that drains    *)
(* the train queue, steps the two optimizers, and saves / publishes        *)
(* checkpoints to the actors (checkpoint queue) and to the evaluator       *)
(* (shared message array).  Actors and the evaluator are the environment:  *)
(* they put batches, take messages off the checkpoint queue and read the   *)
(* message array at arbitrary times.                                       *)
(***************************************************************************)
EXTENDS Integers, Sequences, FiniteSets

\* ---------------------------------------------------------------- bounds
MaxStep == 4        \* largest max_train_step tried
MaxPeriod == 2      \* largest save_every_niter / gradient_accumulation_niter tried
MaxFreeze == 2      \* largest freeze_bert_niter tried
MaxActors == 2      \* most actors registered
MaxQueue == 2       \* most batches waiting in the train queue at once

\* ------------------------------------------------------ program constants
SlotCapacity == 4096    \* multiprocessing.Array(ctypes.c_char, 4096)
NameLen == 20           \* len('agent_state.iter') + len('.bin')

None == 0               \* Python None for a model path; paths are named by their iter
BatchSizes == {0, 1}    \* len(train_samples): an empty batch and a non-empty one
\* len(work_dir): a short directory, and one so long that the path passes 4096 bytes
WorkDirLens == {8, SlotCapacity - NameLen - 1}

VARIABLES
    config,             \* self.config
    pc,                 \* where the Learner process is
    error,              \* the exception that ended the process, "" if none
    train_iter,         \* local of train()
    train_samples,      \* the batch taken by the last train_queue.get()
    loss_nan,           \* some loss was the mean over zero samples (nan)
    train_queue,        \* self.train_queue
    checkpoint_queue,   \* self.checkpoint_queue
    current_model_path, \* self.current_model_path
    model_path,         \* argument of push_new_model / model_save_path
    frame,              \* innermost of train / update_model_to_actors the Learner is in
    actor_num,          \* self.actor_num
    eval_registered,    \* self.eval_msg_val exists
    eval_msg_val,       \* self.eval_msg_val.value (None: the empty buffer)
    files,              \* checkpoint files that exist in work_dir
    saved,              \* checkpoint files whose torch.save completed
    other_grad,         \* iterations whose gradient is summed in other_params' .grad
    bert_grad,          \* the same for the bert parameters
    other_steps,        \* iterations at which other_optimizer.step() ran
    bert_steps,         \* iterations at which bert_optimizer.step() ran
    resets,             \* iterations at which other_optimizer was rebuilt
    enqueued,           \* number of batches the actors have put so far
    dequeued,           \* ids of the batches train() has taken, in order
    put_count,          \* number of checkpoint_queue.put() calls so far
    last_put,           \* the message of the latest checkpoint_queue.put()
    got,                \* per actor, number of messages it took off checkpoint_queue
    message_var,        \* what the evaluator's last read of its message_var returned
    published,          \* paths whose push_new_model wrote the message array
    seen_published      \* `published` at the evaluator's last read

vars == <<config, pc, error, train_iter, train_samples, loss_nan, train_queue, checkpoint_queue,
          current_model_path, model_path, frame, actor_num, eval_registered,
          eval_msg_val, files, saved, other_grad, bert_grad, other_steps, bert_steps,
          resets, enqueued, dequeued, put_count, last_put, got, message_var, published,
          seen_published>>

learnerVars == <<pc, error, train_iter, train_samples, loss_nan, current_model_path, model_path,
                 frame, files, saved, other_grad, bert_grad, other_steps, bert_steps,
                 resets>>
optVars == <<other_grad, bert_grad, other_steps, bert_steps, resets>>
ckptVars == <<checkpoint_queue, current_model_path, model_path, frame, eval_msg_val,
              files, saved, put_count, last_put, published>>
regVars == <<config, actor_num, eval_registered>>
envVars == <<enqueued, got, message_var, seen_published>>

\* the configurations tried: the shortest run and the longest, every period and
\* freeze threshold up to the bounds, entropy regularisation off and on
Configs ==
    [max_train_step : {1, MaxStep},
     save_every_niter : 1..MaxPeriod,
     gradient_accumulation_niter : 1..MaxPeriod,
     freeze_bert_niter : 0..MaxFreeze,
     entropy_reg_weight : {0, 1},
     work_dir_len : WorkDirLens]

\* ----------------------------------------------------------- pure helpers
\* number of decimal digits '%d' prints for n >= 0
Digits(n) == IF n < 10 THEN 1 ELSE IF n < 100 THEN 2 ELSE 3

\* len(os.path.join(work_dir, 'agent_state.iter%d.bin' % n).encode())
PathLen(n) == config.work_dir_len + 1 + NameLen + Digits(n)

\* the train step a path names (None names none)
StepOf(p) == p

\* ------------------------------------------------------------------- Init
Init ==
    /\ config \in Configs
    /\ pc = "init"
    /\ error = ""
    /\ train_iter = 0
    /\ train_samples = [id |-> 0, size |-> 0]
    /\ loss_nan = FALSE
    /\ train_queue = <<>>
    /\ checkpoint_queue = <<>>
    /\ current_model_path = None
    /\ model_path = None
    /\ frame = "train"
    /\ actor_num = 0
    /\ eval_registered = FALSE
    /\ eval_msg_val = None
    /\ files = {}
    /\ saved = {}
    /\ other_grad = {}
    /\ bert_grad = {}
    /\ other_steps = {}
    /\ bert_steps = {}
    /\ resets = {}
    /\ enqueued = 0
    /\ dequeued = <<>>
    /\ put_count = 0
    /\ last_put = None
    /\ got = [a \in 1..MaxActors |-> 0]
    /\ message_var = None
    /\ published = {}
    /\ seen_published = {}

\* ------------------------------------------------ registration (the orchestrator)
\* register_actor: the actor shares the Learner's two queues
register_actor ==
    /\ pc = "init"
    /\ actor_num < MaxActors
    /\ actor_num' = actor_num + 1
    /\ UNCHANGED <<config, eval_registered, learnerVars, train_queue, checkpoint_queue,
                   eval_msg_val, dequeued, put_count, last_put, published, envVars>>

\* register_evaluator: allocates the 4096-byte message array (all zero bytes)
register_evaluator ==
    /\ pc = "init"
    /\ ~eval_registered
    /\ eval_registered' = TRUE
    /\ eval_msg_val' = None
    /\ UNCHANGED <<config, actor_num, learnerVars, train_queue, checkpoint_queue,
                   dequeued, put_count, last_put, published, envVars>>

\* run(): build the agent and enter train(); train_iter = 0
run ==
    /\ pc = "init"
    /\ pc' = "while"
    /\ UNCHANGED <<regVars, error, train_iter, train_samples, loss_nan, train_queue, optVars,
                   ckptVars, dequeued, envVars>>

\* ------------------------------------------------------------ train loop
Crash(e) == pc' = "crashed" /\ error' = e

\* while train_iter < max_train_step: train_iter += 1; both zero_grad()
\* variant: the counter advances by two
NextIterByTwo(t) == t + 2
NextIter(t) == t + 1

LoopHead ==
    /\ pc = "while"
    /\ IF train_iter < config.max_train_step
       THEN /\ train_iter' = NextIter(train_iter)
            /\ other_grad' = {}
            /\ bert_grad' = {}
            /\ pc' = "get"
       ELSE /\ pc' = "done"
            /\ UNCHANGED <<train_iter, other_grad, bert_grad>>
    /\ UNCHANGED <<regVars, error, train_samples, loss_nan, train_queue, other_steps,
                   bert_steps, resets, ckptVars, dequeued, envVars>>

\* train_samples, samples_info = self.train_queue.get()   (blocks while empty)
\* variant: takes the newest batch instead of the oldest
QueueGetNewest(q) == q[Len(q)]
QueueGet(q) == Head(q)
QueueRest(q) == Tail(q)

Get ==
    /\ pc = "get"
    /\ train_queue # <<>>
    /\ train_samples' = QueueGet(train_queue)
    /\ train_queue' = QueueRest(train_queue)
    /\ dequeued' = Append(dequeued, QueueGet(train_queue).id)
    /\ pc' = "forward"
    /\ UNCHANGED <<regVars, error, train_iter, loss_nan, optVars, ckptVars, envVars>>

\* variant: the entropy term is skipped when no entropy value exists
ForwardSkipEntropy ==
    /\ pc = "forward"
    /\ \/ /\ train_samples.size = 0
          /\ Crash("AgentError")
          /\ UNCHANGED loss_nan
       \/ /\ pc' = "backward"
          /\ loss_nan' = (loss_nan \/ train_samples.size = 0)
          /\ UNCHANGED error
    /\ UNCHANGED <<regVars, train_iter, train_samples, train_queue, optVars, ckptVars,
                   dequeued, envVars>>

\* self.agent(train_trajectories), the weighted mean loss, the entropy term.
\* The agent is given an empty list for an empty batch: it may raise, or return
\* an empty tensor whose mean() is nan.  When entropy_reg_weight != 0 the local
\* `entropy` is read before any assignment: UnboundLocalError.
Forward ==
    /\ pc = "forward"
    /\ \/ /\ train_samples.size = 0
          /\ Crash("AgentError")
          /\ UNCHANGED loss_nan
       \/ /\ config.entropy_reg_weight # 0
          /\ Crash("UnboundLocalError")
          /\ loss_nan' = (loss_nan \/ train_samples.size = 0)
       \/ /\ config.entropy_reg_weight = 0
          /\ pc' = "backward"
          /\ loss_nan' = (loss_nan \/ train_samples.size = 0)
          /\ UNCHANGED error
    /\ UNCHANGED <<regVars, train_iter, train_samples, train_queue, optVars, ckptVars,
                   dequeued, envVars>>

\* loss.backward(); clip_grad_norm_: this iteration's gradient is added to .grad
Backward ==
    /\ pc = "backward"
    /\ other_grad' = other_grad \cup {train_iter}
    /\ bert_grad' = bert_grad \cup {train_iter}
    /\ pc' = "step"
    /\ UNCHANGED <<regVars, error, train_iter, train_samples, loss_nan, train_queue, other_steps,
                   bert_steps, resets, ckptVars, dequeued, envVars>>

\* if train_iter % gradient_accumulation_niter == 0
\* variant: steps on every iteration
StepEveryIter(t) == TRUE
StepDue(t) == t % config.gradient_accumulation_niter = 0
\* if train_iter > freeze_bert_for_niter
\* variant: the freeze ends one iteration early (>= for >)
BertDueEarly(t) == t >= config.freeze_bert_niter
BertDue(t) == t > config.freeze_bert_niter
\* elif train_iter == freeze_bert_for_niter
ResetDue(t) == t = config.freeze_bert_niter

Step ==
    /\ pc = "step"
    /\ IF StepDue(train_iter)
       THEN /\ other_steps' = other_steps \cup {train_iter}
            /\ IF BertDue(train_iter)
               THEN /\ bert_steps' = bert_steps \cup {train_iter}
                    /\ UNCHANGED resets
               ELSE IF ResetDue(train_iter)
               THEN /\ resets' = resets \cup {train_iter}
                    /\ UNCHANGED bert_steps
               ELSE UNCHANGED <<bert_steps, resets>>
       ELSE UNCHANGED <<other_steps, bert_steps, resets>>
    /\ pc' = "branch"
    /\ UNCHANGED <<regVars, error, train_iter, train_samples, loss_nan, train_queue, other_grad,
                   bert_grad, ckptVars, dequeued, envVars>>

\* if train_iter % save_every_niter == 0: update_model_to_actors(train_iter)
\* else: push_new_model(self.current_model_path)
\* variant: a checkpoint is saved on every iteration
SaveEveryIter(t) == TRUE
SaveDue(t) == t % config.save_every_niter = 0
\* the argument of the re-publish: self.current_model_path
\* variant: the re-publish carries no path
RepublishNone(p) == None
RepublishArg(p) == p

Branch ==
    /\ pc = "branch"
    /\ IF SaveDue(train_iter)
       THEN /\ frame' = "update"
            /\ pc' = "save"
            /\ UNCHANGED model_path
       ELSE /\ model_path' = RepublishArg(current_model_path)
            /\ pc' = "put"
            /\ UNCHANGED frame
    /\ UNCHANGED <<regVars, error, train_iter, train_samples, loss_nan, train_queue, optVars,
                   checkpoint_queue, current_model_path, eval_msg_val, files, saved,
                   put_count, last_put, published, dequeued, envVars>>

\* ------------------------------------------------ update_model_to_actors
\* variant: a failed torch.save is swallowed and the path is pushed all the same
SavePushAnyway ==
    /\ pc = "save"
    /\ \/ /\ files' = files \cup {train_iter}
          /\ saved' = saved \cup {train_iter}
          /\ UNCHANGED error
       \/ /\ files' \in {files, files \cup {train_iter}}
          /\ UNCHANGED <<saved, error>>
    /\ model_path' = train_iter
    /\ pc' = "put"
    /\ UNCHANGED <<regVars, train_iter, train_samples, loss_nan, train_queue, optVars, frame,
                   checkpoint_queue, current_model_path, eval_msg_val, put_count,
                   last_put, published, dequeued, envVars>>

\* model_save_path = .../agent_state.iter<train_iter>.bin
\* torch.save(model_state, model_save_path): it completes, or it raises having
\* created no file or a partial one (the exception ends train()).
Save ==
    /\ pc = "save"
    /\ \/ /\ files' = files \cup {train_iter}
          /\ saved' = saved \cup {train_iter}
          /\ model_path' = train_iter
          /\ pc' = "put"
          /\ UNCHANGED error
       \/ /\ files' \in {files, files \cup {train_iter}}
          /\ Crash("IOError")
          /\ UNCHANGED <<saved, model_path>>
    /\ UNCHANGED <<regVars, train_iter, train_samples, loss_nan, train_queue, optVars, frame,
                   checkpoint_queue, current_model_path, eval_msg_val, put_count,
                   last_put, published, dequeued, envVars>>

\* push_new_model: self.checkpoint_queue.put(model_path)
\* variant: one put per registered actor
CopiesPerActor(n) == n
Copies(n) == 1

Put ==
    /\ pc = "put"
    /\ checkpoint_queue' =
          checkpoint_queue \o [i \in 1..Copies(actor_num) |-> model_path]
    /\ put_count' = put_count + 1
    /\ last_put' = model_path
    /\ pc' = "slot"
    /\ UNCHANGED <<regVars, error, train_iter, train_samples, loss_nan, train_queue, optVars,
                   current_model_path, model_path, frame, eval_msg_val, files, saved,
                   published, dequeued, envVars>>

\* push_new_model: if model_path: self.eval_msg_val.value = model_path.encode()
\* The attribute is missing when no evaluator was registered; the c_char array
\* refuses more bytes than it holds.
Return(f) == IF f = "update" THEN "remove" ELSE "cache"

\* variant: the array is written only while it is still empty
SlotKeepFirst(old, new) == IF old = None THEN new ELSE old
SlotValue(old, new) == new

SlotWrite ==
    /\ pc = "slot"
    /\ IF model_path = None
       THEN /\ pc' = Return(frame)
            /\ UNCHANGED <<error, eval_msg_val, published>>
       ELSE IF ~eval_registered
       THEN /\ Crash("AttributeError")
            /\ UNCHANGED <<eval_msg_val, published>>
       ELSE IF PathLen(model_path) > SlotCapacity
       THEN /\ Crash("ValueError")
            /\ UNCHANGED <<eval_msg_val, published>>
       ELSE /\ eval_msg_val' = SlotValue(eval_msg_val, model_path)
            /\ published' = published \cup {model_path}
            /\ pc' = Return(frame)
            /\ UNCHANGED error
    /\ UNCHANGED <<regVars, train_iter, train_samples, loss_nan, train_queue, optVars,
                   checkpoint_queue, current_model_path, model_path, frame, files,
                   saved, put_count, last_put, dequeued, envVars>>

\* if self.current_model_path: os.remove(self.current_model_path)
\* os.remove raises when the file is gone or cannot be unlinked.
\* variant: the stale file is left in place
RemovedNothing(fs, p) == fs
Removed(fs, p) == fs \ {p}

Remove ==
    /\ pc = "remove"
    /\ IF current_model_path = None
       THEN /\ pc' = "setcur"
            /\ UNCHANGED <<error, files>>
       ELSE \/ /\ current_model_path \in files
               /\ files' = Removed(files, current_model_path)
               /\ pc' = "setcur"
               /\ UNCHANGED error
            \/ /\ Crash("OSError")
               /\ UNCHANGED files
    /\ UNCHANGED <<regVars, train_iter, train_samples, loss_nan, train_queue, optVars,
                   checkpoint_queue, current_model_path, model_path, frame,
                   eval_msg_val, saved, put_count, last_put, published,
                   dequeued, envVars>>

\* self.current_model_path = model_save_path; back in train(): cache statistics
\* variant: the assignment is lost and the old value stays
KeepOldCurrent(old, new) == old
NewCurrent(old, new) == new

SetCurrent ==
    /\ pc = "setcur"
    /\ current_model_path' = NewCurrent(current_model_path, model_path)
    /\ frame' = "train"
    /\ pc' = "cache"
    /\ UNCHANGED <<regVars, error, train_iter, train_samples, loss_nan, train_queue, optVars,
                   checkpoint_queue, model_path, eval_msg_val, files, saved,
                   put_count, last_put, published, dequeued, envVars>>

\* save_program_cache_niter is 0 (its default): nothing is written; loop again
EndIter ==
    /\ pc = "cache"
    /\ pc' = "while"
    /\ UNCHANGED <<regVars, error, train_iter, train_samples, loss_nan, train_queue, optVars,
                   ckptVars, dequeued, envVars>>

\* ------------------------------------------------------------ environment
\* an actor puts a batch on the shared train queue
ActorPut ==
    /\ actor_num > 0
    /\ Len(train_queue) < MaxQueue
    /\ enqueued < config.max_train_step + 1
    /\ \E n \in BatchSizes :
          train_queue' = Append(train_queue, [id |-> enqueued + 1, size |-> n])
    /\ enqueued' = enqueued + 1
    /\ UNCHANGED <<regVars, learnerVars, checkpoint_queue, eval_msg_val, dequeued,
                   put_count, last_put, published, got, message_var, seen_published>>

\* an actor takes the next message off the shared checkpoint queue
ActorGet ==
    /\ checkpoint_queue # <<>>
    /\ \E a \in 1..actor_num : got' = [got EXCEPT ![a] = @ + 1]
    /\ checkpoint_queue' = Tail(checkpoint_queue)
    /\ UNCHANGED <<regVars, learnerVars, train_queue, eval_msg_val, dequeued, put_count,
                   last_put, published, enqueued, message_var, seen_published>>

\* the evaluator reads message_var.value
EvalRead ==
    /\ eval_registered
    /\ message_var' = eval_msg_val
    /\ seen_published' = published
    /\ UNCHANGED <<regVars, learnerVars, train_queue, checkpoint_queue, eval_msg_val,
                   dequeued, put_count, last_put, published, enqueued, got>>

Next ==
    \/ register_actor
    \/ register_evaluator
    \/ run
    \/ LoopHead
    \/ Get
    \/ Forward
    \/ Backward
    \/ Step
    \/ Branch
    \/ Save
    \/ Put
    \/ SlotWrite
    \/ Remove
    \/ SetCurrent
    \/ EndIter
    \/ ActorPut
    \/ ActorGet
    \/ EvalRead

Spec == Init /\ [][Next]_vars

\* ================================================================ claims
\* Shorthands used by the claims below.
K == config.gradient_accumulation_niter
F == config.freeze_bert_niter

\* the optimizer block (lines 150-157) of iteration train_iter has been passed
PastStep ==
    \/ pc \in {"branch", "save", "put", "slot", "remove", "setcur", "cache", "while", "done"}
    \/ pc = "crashed" /\ error \in {"IOError", "OSError", "ValueError", "AttributeError"}

\* iterations whose optimizer block has been passed
StepsPassed == {t \in 1..train_iter : t < train_iter \/ PastStep}

Range(s) == {s[i] : i \in 1..Len(s)}

RECURSIVE SumGot(_)
SumGot(n) == IF n = 0 THEN 0 ELSE got[n] + SumGot(n - 1)

\* the batch of the current iteration has been taken and it is empty
EmptyTaken == train_iter >= 1 /\ Len(dequeued) = train_iter /\ train_samples.size = 0

\* ---------------------------------------------------------------------- C1
\* C1 as stated: batches leave the train queue in FIFO order and, in every
\* reachable state, train_iter equals the number of batches dequeued so far
\* (also while the Learner is blocked waiting for the next batch).
C1_CounterEqualsDequeued ==
    /\ dequeued = [i \in 1..Len(dequeued) |-> i]
    /\ train_iter = Len(dequeued)

\* C1 amended: batches leave the train queue in FIFO order, none is lost or
\* taken twice, at most max_train_step are taken; train_iter is incremented
\* before the blocking get, so it is one more than the number of batches
\* dequeued exactly while the Learner waits at the get, and equal to it in
\* every other state.
C1_FifoAndCounter ==
    /\ dequeued = [i \in 1..Len(dequeued) |-> i]
    /\ [i \in 1..Len(train_queue) |-> train_queue[i].id]
          = [i \in 1..Len(train_queue) |-> Len(dequeued) + i]
    /\ Len(dequeued) + Len(train_queue) = enqueued
    /\ Len(dequeued) <= config.max_train_step
    /\ train_iter = Len(dequeued) + (IF pc = "get" THEN 1 ELSE 0)

\* the Learner has processed two batches and is blocked waiting for the third
C1_Witness ==
    /\ pc = "get"
    /\ train_queue = <<>>
    /\ dequeued = <<1, 2>>
    /\ train_iter = 3

\* ---------------------------------------------------------------------- C2
\* C2: every path on the checkpoint queue, in the message array, read by the
\* evaluator or held as current_model_path names a file whose torch.save has
\* completed; when torch.save fails the path of that iteration is nowhere:
\* nothing was put in that iteration, the array and current_model_path keep
\* the previous checkpoint.
C2_SaveBeforePublish ==
    /\ \A i \in 1..Len(checkpoint_queue) :
          checkpoint_queue[i] # None => checkpoint_queue[i] \in saved
    /\ eval_msg_val # None => eval_msg_val \in saved
    /\ message_var # None => message_var \in saved
    /\ current_model_path # None => current_model_path \in saved
    /\ pc \in {"put", "slot"} /\ model_path # None => model_path \in saved
    /\ error = "IOError" =>
          /\ train_iter \notin Range(checkpoint_queue)
          /\ eval_msg_val # train_iter
          /\ current_model_path # train_iter
          /\ put_count = train_iter - 1

\* a save failed after an earlier checkpoint had been published, leaving a
\* partial file behind
C2_Witness ==
    /\ error = "IOError"
    /\ train_iter \in files
    /\ current_model_path # None
    /\ eval_msg_val = current_model_path

\* ---------------------------------------------------------------------- C3
\* C3: the message array never holds a path older than one whose publication
\* has completed, and a read by the evaluator never returns a path older than
\* a publication that had completed before the read.
C3_SlotMonotonic ==
    /\ \A p \in published : StepOf(eval_msg_val) >= StepOf(p)
    /\ \A p \in seen_published : StepOf(message_var) >= StepOf(p)
    /\ StepOf(message_var) <= StepOf(eval_msg_val)

\* two checkpoints were published, with a re-publish between them, and the
\* evaluator read the array after the second
C3_Witness ==
    /\ published = {2, 4}
    /\ seen_published = {2, 4}
    /\ message_var = 4

\* ---------------------------------------------------------------------- C4
\* C4 as stated: at every instant after the first successful publish, also
\* inside update_model_to_actors, exactly one checkpoint file exists (the
\* current checkpoint's, or the one being made current).  Stated for runs
\* whose batches were all non-empty.
C4_AlwaysOneFile ==
    published # {} /\ ~loss_nan =>
        \/ files = {current_model_path}
        \/ files = {model_path}

\* C4 amended: after the first successful publish, whenever the Learner is
\* outside update_model_to_actors exactly one checkpoint file exists and it
\* is the file of current_model_path; inside update_model_to_actors (also
\* when it was aborted there) the only files are the previous current one and
\* the one of this iteration, which exist together between the save and the
\* remove.
C4_OneFileOutsideUpdate ==
    published # {} =>
        IF frame = "update"
        THEN /\ files \subseteq {current_model_path, train_iter}
             /\ files # {}
             /\ pc \in {"put", "slot", "remove"} /\ current_model_path # None
                   => files = {current_model_path, train_iter}
        ELSE files = {current_model_path}

\* the loop is between iterations after a second checkpoint replaced the first
C4_Witness ==
    /\ pc = "while"
    /\ Cardinality(published) = 2
    /\ files = {current_model_path}
    /\ current_model_path = train_iter

\* ---------------------------------------------------------------------- C5
\* C5 as stated: with two or more actors registered, every actor receives its
\* own copy of every message pushed: once the queue holds no message, each
\* actor has received as many messages as were pushed.  Stated for
\* save_every_niter = 1, where every push carries a freshly saved path, and
\* for runs whose batches were all non-empty.
C5_EveryActorGetsACopy ==
    actor_num >= 2 /\ checkpoint_queue = <<>> /\ config.save_every_niter = 1 /\ ~loss_nan =>
        \A a \in 1..actor_num : got[a] = put_count

\* C5 amended: each call of push_new_model puts exactly one message on the
\* shared checkpoint queue, whatever the number of registered actors, and a
\* message is received by exactly one actor (the one whose get takes it): the
\* messages received by all actors and those still queued add up to the
\* number of pushes.
C5_OneMessagePerPush ==
    /\ SumGot(MaxActors) + Len(checkpoint_queue) = put_count
    /\ \A a \in 1..MaxActors : a > actor_num => got[a] = 0
    /\ put_count = Cardinality({t \in 1..train_iter :
                        t < train_iter \/ pc \in {"slot", "remove", "setcur", "cache",
                                                  "while", "done"}
                                       \/ (pc = "crashed" /\ error \in
                                             {"OSError", "ValueError", "AttributeError"})})

\* two actors are registered and one of them took every message pushed
C5_Witness ==
    /\ actor_num = 2
    /\ put_count >= 2
    /\ checkpoint_queue = <<>>
    /\ got[1] = put_count
    /\ got[2] = 0

\* ---------------------------------------------------------------------- C6
\* C6: with gradient_accumulation_niter = K > 1, other_optimizer.step() has
\* run at exactly the iterations t with t mod K = 0 among those whose
\* optimizer block has been passed.
C6_OtherStepsAtBoundaries ==
    K > 1 => other_steps = {t \in StepsPassed : t % K = 0}

\* K = 2 and the run finished four iterations: steps at 2 and 4 only
C6_Witness ==
    /\ K = 2
    /\ pc = "done"
    /\ other_steps = {2, 4}

\* ---------------------------------------------------------------------- C7
\* C7: with K > 1, when an optimizer step is due the gradients of both groups
\* hold the contributions of all K iterations since the previous step.
\* Stated for runs whose batches were all non-empty.
C7_StepSeesKIterations ==
    K > 1 /\ pc = "step" /\ StepDue(train_iter) /\ ~loss_nan =>
        /\ other_grad = (train_iter - K + 1)..train_iter
        /\ bert_grad = (train_iter - K + 1)..train_iter

\* ---------------------------------------------------------------------- C8
\* C8: bert_optimizer.step() has run at no iteration t <= F, and at exactly
\* the iterations t > F with t mod K = 0 among those whose optimizer block
\* has been passed.
C8_BertStepsAfterFreeze ==
    bert_steps = {t \in StepsPassed : t > F /\ t % K = 0}

\* F = 2, K = 2, four iterations done: other stepped at 2 and 4, bert only at 4
C8_Witness ==
    /\ F = 2
    /\ K = 2
    /\ pc = "done"
    /\ other_steps = {2, 4}
    /\ bert_steps = {4}

\* ---------------------------------------------------------------------- C9
\* C9: with 1 <= F <= max_train_step, a run that reaches the end of the loop
\* has rebuilt other_optimizer exactly once, at iteration F.  Stated for runs
\* whose batches were all non-empty.
C9_OneResetAtF ==
    pc = "done" /\ 1 <= F /\ F <= config.max_train_step /\ ~loss_nan => resets = {F}

\* ---------------------------------------------------------------------- C10
\* C10: once an empty batch has been taken, the Learner is either about to
\* reject it or has ended with an error, and nothing has changed since the
\* get: no optimizer step and no push in this iteration.
C10_EmptyBatchRejected ==
    EmptyTaken =>
        /\ pc \in {"forward", "crashed"}
        /\ train_iter \notin other_steps \cup bert_steps
        /\ put_count = train_iter - 1
        /\ current_model_path # train_iter
        /\ eval_msg_val # train_iter

\* ---------------------------------------------------------------------- C11
\* the end-to-end configuration: four iterations, a save every second one, no
\* accumulation, no freeze, no entropy term
EndToEndConfig ==
    /\ config.max_train_step = 4
    /\ config.save_every_niter = 2
    /\ config.gradient_accumulation_niter = 1
    /\ config.freeze_bert_niter = 0
    /\ config.entropy_reg_weight = 0

\* C11: in the end-to-end configuration with non-empty batches, checkpoints
\* are saved and published at steps 2 and 4 and at no other step; when the
\* loop has ended train_iter is 4, both have been saved and published, and
\* the step-4 file is the only checkpoint file and the current one.
C11_EndToEnd ==
    EndToEndConfig /\ ~loss_nan =>
        /\ saved \subseteq {2, 4}
        /\ published \subseteq saved
        /\ pc = "done" =>
              /\ train_iter = 4
              /\ dequeued = <<1, 2, 3, 4>>
              /\ saved = {2, 4}
              /\ published = {2, 4}
              /\ files = {4}
              /\ current_model_path = 4
              /\ eval_msg_val = 4

\* the end-to-end run has ended with the step-4 file alone on disk
C11_Witness ==
    /\ EndToEndConfig
    /\ ~loss_nan
    /\ pc = "done"
    /\ files = {4}
    /\ published = {2, 4}

\* ---------------------------------------------------------------------- C12
\* C12: a failed os.remove of the previously current file does not end the
\* loop, and current_model_path becomes the path saved in that iteration.
\* Stated for runs whose batches were all non-empty.
C12_RemoveFailureNonFatal ==
    error = "OSError" /\ ~loss_nan =>
        /\ pc # "crashed"
        /\ current_model_path = model_path

\* ---------------------------------------------------------------------- C13
\* C13: when the Learner has just removed the file of current_model_path
\* (before it assigns the new path), that path is not waiting undelivered on
\* the checkpoint queue and is not the content of the message array.  Stated
\* for runs whose batches were all non-empty.
C13_RemovedNotInFlight ==
    pc = "setcur" /\ current_model_path # None /\ ~loss_nan =>
        /\ current_model_path \notin files
        /\ current_model_path \notin Range(checkpoint_queue)
        /\ eval_msg_val # current_model_path

\* ---------------------------------------------------------------------- C14
\* C14: with entropy_reg_weight # 0 (no entropy value is ever computed) the
\* loop ends in its first iteration with an error raised before
\* loss.backward(): no gradient, no optimizer step, no save and no push ever
\* happen.
C14_EntropyFailsFast ==
    config.entropy_reg_weight # 0 =>
        /\ pc \in {"init", "while", "get", "forward", "crashed"}
        /\ train_iter <= 1
        /\ pc = "crashed" => error \in {"UnboundLocalError", "AgentError"}
        /\ other_grad = {} /\ bert_grad = {}
        /\ other_steps = {} /\ bert_steps = {} /\ resets = {}
        /\ saved = {} /\ files = {}
        /\ put_count = 0 /\ checkpoint_queue = <<>>
        /\ published = {} /\ eval_msg_val = None
        /\ current_model_path = None

\* the first iteration took a non-empty batch and ended on the entropy term
C14_Witness ==
    /\ config.entropy_reg_weight # 0
    /\ error = "UnboundLocalError"
    /\ train_samples.size = 1
    /\ train_iter = 1

\* ---------------------------------------------------------------------- C15
\* The steps of the Learner process.  The process, once created, is scheduled
\* by the operating system: a step that stays possible is eventually taken.
\* Nothing is assumed of the actors and of the evaluator.
LearnerNext ==
    \/ run
    \/ LoopHead
    \/ Get
    \/ Forward
    \/ Backward
    \/ Step
    \/ Branch
    \/ Save
    \/ Put
    \/ SlotWrite
    \/ Remove
    \/ SetCurrent
    \/ EndIter

LiveSpec == Init /\ [][Next]_vars /\ WF_vars(LearnerNext)

\* C15 as stated: once train_iter has reached max_train_step every queue
\* read, optimizer step and push of the run has already happened.  Stated for
\* runs whose batches were all non-empty.
C15_NothingAfterCounterAtMax ==
    train_iter = config.max_train_step /\ ~loss_nan =>
        /\ Len(dequeued) = config.max_train_step
        /\ put_count = config.max_train_step
        /\ {t \in 1..config.max_train_step : StepDue(t)} \subseteq other_steps

\* what holds of the number of dequeues, and of the state when the loop ended
C15_AtMostMaxDequeues ==
    /\ Len(dequeued) <= config.max_train_step
    /\ train_iter <= config.max_train_step
    /\ pc = "done" =>
          /\ Len(dequeued) = config.max_train_step
          /\ train_iter = config.max_train_step
          /\ put_count = config.max_train_step
          /\ other_steps = {t \in 1..config.max_train_step : StepDue(t)}

\* a step taken after the loop has ended is not the Learner's: nothing it
\* owns changes and the train queue is only appended to
C15_StoppedIsTerminal ==
    pc = "done" =>
        /\ UNCHANGED <<learnerVars, dequeued, put_count, last_put, published, eval_msg_val>>
        /\ \/ train_queue' = train_queue
           \/ /\ Len(train_queue') = Len(train_queue) + 1
              /\ SubSeq(train_queue', 1, Len(train_queue)) = train_queue
        /\ Len(checkpoint_queue') <= Len(checkpoint_queue)

\* C15 amended: at most max_train_step batches are dequeued; train_iter
\* reaches max_train_step at the top of the last iteration, and it is once
\* the loop has ended (not once the counter has reached max_train_step) that
\* no queue read, optimizer step or push happens any more, exactly
\* max_train_step batches having been dequeued; if at least max_train_step
\* batches are eventually enqueued the Learner eventually leaves the loop or
\* is ended by an exception raised in an iteration.
C15_StopsAfterMaxSteps ==
    /\ []C15_AtMostMaxDequeues
    /\ [][C15_StoppedIsTerminal]_vars
    /\ (<>(enqueued >= config.max_train_step) => <>(pc \in {"done", "crashed"}))

\* the loop ended after four batches while a fifth waits unread on the queue
C15_Witness ==
    /\ pc = "done"
    /\ train_iter = 4
    /\ dequeued = <<1, 2, 3, 4>>
    /\ Len(train_queue) = 1
    /\ enqueued = 5

\* ---------------------------------------------------------------------- C16
\* the path saved at the largest multiple of save_every_niter that is <= t
\* (None when there is none)
LastSaved(t) == t - (t % config.save_every_niter)

\* the Learner is inside the re-publish of iteration train_iter
InRepublish == frame = "train" /\ pc \in {"put", "slot"}

\* C16: on an iteration that is not a multiple of save_every_niter exactly
\* one message is put and it carries current_model_path; before, during and
\* after the re-publish current_model_path, the checkpoint files and the
\* content of the message array are the same: those of the last save.
C16_RepublishChangesNothing ==
    /\ InRepublish =>
          /\ ~SaveDue(train_iter)
          /\ model_path = current_model_path
          /\ put_count = (IF pc = "put" THEN train_iter - 1 ELSE train_iter)
          /\ pc = "slot" => last_put = current_model_path
    /\ (pc = "branch" \/ InRepublish \/ pc = "cache") /\ ~SaveDue(train_iter) =>
          /\ current_model_path = LastSaved(train_iter)
          /\ eval_msg_val = current_model_path
          /\ files = {current_model_path} \ {None}
          /\ pc = "cache" => put_count = train_iter /\ last_put = current_model_path

\* iteration 3 has re-published the step-2 path; the array already held it
C16_Witness ==
    /\ pc = "cache"
    /\ train_iter = 3
    /\ config.save_every_niter = 2
    /\ last_put = 2
    /\ current_model_path = 2
    /\ eval_msg_val = 2
    /\ files = {2}

\* ---------------------------------------------------------------------- C17
\* C17: when the path of a checkpoint does not fit the message array the
\* failure is fatal, the array keeps its previous content, and the path has
\* neither been put on checkpoint_queue nor become current_model_path.
C17_OverlongNotDelivered ==
    error = "ValueError" /\ ~loss_nan =>
        /\ pc = "crashed"
        /\ PathLen(model_path) > SlotCapacity
        /\ eval_msg_val # model_path
        /\ current_model_path # model_path
        /\ last_put # model_path
        /\ put_count = train_iter - 1

\* ---------------------------------------------------------------------- C18
\* a message of checkpoint_queue: None, sent before the first save, or the
\* path of a checkpoint that has been saved
SavedOrNone(m) == m = None \/ m \in saved

\* C18 as stated: every message put on checkpoint_queue is the path of a
\* checkpoint that has already been saved, never None, and its file exists
\* when the message is put.
C18_NeverNone ==
    put_count >= 1 /\ ~loss_nan =>
        last_put # None /\ last_put \in saved /\ last_put \in files

\* C18 amended: a message put on checkpoint_queue is None exactly when no
\* checkpoint has been saved yet (the iterations before save_every_niter);
\* otherwise it is the path of the latest saved checkpoint, whose file
\* exists when the message is put.  Messages still queued are None or saved.
C18_SavedOrNoneBeforeFirstSave ==
    /\ \A i \in 1..Len(checkpoint_queue) : SavedOrNone(checkpoint_queue[i])
    /\ put_count >= 1 =>
          /\ SavedOrNone(last_put)
          /\ last_put = None <=> put_count < config.save_every_niter
          /\ last_put = put_count - (put_count % config.save_every_niter)
    /\ pc = "slot" /\ last_put # None => last_put \in files

\* None was pushed at iteration 1 and the step-2 path at iteration 2
C18_Witness ==
    /\ config.save_every_niter = 2
    /\ pc = "slot"
    /\ train_iter = 2
    /\ checkpoint_queue = <<None, 2>>
    /\ last_put = 2
    /\ 2 \in files

\* ---------------------------------------------------------------------- C19
\* the iteration train_iter has run to its end
IterationEnded == pc \in {"cache", "while", "done"} /\ train_iter >= 1

\* C19: at the end of every iteration t >= save_every_niter the message
\* array, the last message put on checkpoint_queue and current_model_path
\* name the same checkpoint, the one saved at the largest multiple of
\* save_every_niter that is <= t; and the steps of the paths put on
\* checkpoint_queue never decrease.
C19_ConsistentAtIterationEnd ==
    /\ IterationEnded /\ train_iter >= config.save_every_niter =>
          /\ LastSaved(train_iter) >= config.save_every_niter
          /\ current_model_path = LastSaved(train_iter)
          /\ last_put = current_model_path
          /\ eval_msg_val = current_model_path
    /\ put_count >= 1 => StepOf(last_put) = LastSaved(put_count)
    /\ \A i \in 1..Len(checkpoint_queue) :
          /\ StepOf(checkpoint_queue[i]) <= StepOf(last_put)
          /\ \A j \in 1..i : StepOf(checkpoint_queue[j]) <= StepOf(checkpoint_queue[i])

\* iteration 3 has ended with the step-2 checkpoint in all three places; of
\* the three messages put, the last two are still queued
C19_Witness ==
    /\ pc = "while"
    /\ train_iter = 3
    /\ config.save_every_niter = 2
    /\ current_model_path = 2
    /\ last_put = 2
    /\ eval_msg_val = 2
    /\ put_count = 3
    /\ checkpoint_queue = <<2, 2>>

====
